---- MODULE Spec2Model ----
(***************************************************************************)
(* Model of src/tesseract/input.rs of rusty-tesseract: the Args struct     *)
(* with its rendering of config variables, and the Image input handle      *)
(* (from_path, from_dynamic_image, get_image_path, Display, drop).         *)
(*                                                                         *)
(* A path (PathBuf / OsStr) is a sequence of units.  A unit is either one  *)
(* character (a one-character string, or a "U+XXXX" token for a non-ASCII  *)
(* character) or the token "0xFF", a byte that is not valid UTF-8.         *)
(* A String is a sequence of character units.                              *)
(***************************************************************************)
EXTENDS Integers, Sequences, FiniteSets, TLC

VARIABLES
    images,   \* slot -> the Image value the caller holds there, or NoImage
    disk,     \* path -> content, for every file that exists
    args,     \* the Args value the caller holds
    last      \* the last call: its operation, argument, steps and result

vars == <<images, disk, args, last>>

-----------------------------------------------------------------------------
(* Bounds of the model *)

\* number of Image values the caller holds at once
MaxImages == 2
\* number of distinct names the temporary-file facility can draw
MaxTemp == 1
\* number of entries of Args.config_variables
MaxVars == 2

-----------------------------------------------------------------------------
(* Strings and paths *)

BadByte == "0xFF"

\* OsStr::to_str / Path::to_str: the &str view, or None when a unit is not UTF-8
None == [some |-> FALSE, val |-> <<>>]
Some(v) == [some |-> TRUE, val |-> v]

to_str(os) ==
    IF \E k \in 1..Len(os) : os[k] = BadByte THEN None ELSE Some(os)

\* the ASCII letters the model's paths use, as <<lowercase, uppercase>>
AsciiPairs ==
    { <<"a","A">>, <<"b","B">>, <<"e","E">>, <<"f","F">>, <<"g","G">>,
      <<"i","I">>, <<"j","J">>, <<"m","M">>, <<"n","N">>, <<"p","P">>,
      <<"t","T">>, <<"w","W">>, <<"x","X">> }

\* char::to_uppercase: the Unicode uppercase mapping, which may be several
\* characters (U+00DF sharp s -> SS, U+FB00 ligature ff -> FF) and maps
\* U+0131 dotless i to I
char_to_uppercase(c) ==
    IF \E pr \in AsciiPairs : pr[1] = c
    THEN <<(CHOOSE pr \in AsciiPairs : pr[1] = c)[2]>>
    ELSE IF c = "U+0131" THEN <<"I">>
    ELSE IF c = "U+FB00" THEN <<"F", "F">>
    ELSE IF c = "U+00DF" THEN <<"S", "S">>
    ELSE <<c>>

\* to_uppercase left out: the extension compared as written
to_uppercase_id(s) == s

RECURSIVE to_uppercase(_)
to_uppercase(s) ==
    IF s = <<>> THEN <<>>
    ELSE char_to_uppercase(Head(s)) \o to_uppercase(Tail(s))

\* Path::components, as far as file_name needs them: the non-empty pieces
\* between separators, with "." pieces dropped
RECURSIVE SplitAt(_, _, _)
SplitAt(p, cur, acc) ==
    IF p = <<>> THEN Append(acc, cur)
    ELSE IF Head(p) = "/" THEN SplitAt(Tail(p), <<>>, Append(acc, cur))
    ELSE SplitAt(Tail(p), Append(cur, Head(p)), acc)

components(p) ==
    SelectSeq(SplitAt(p, <<>>, <<>>), LAMBDA c : c # <<>> /\ c # <<".">>)

\* Path::file_name: the last component, unless the path ends in ".."
file_name(p) ==
    LET cs == components(p) IN
    IF cs = <<>> \/ cs[Len(cs)] = <<".", ".">> THEN None
    ELSE Some(cs[Len(cs)])

\* index of the last "." of a file name, 0 when there is none
LastDot(f) ==
    IF \E k \in 1..Len(f) : f[k] = "."
    THEN CHOOSE k \in 1..Len(f) :
            f[k] = "." /\ \A j \in (k+1)..Len(f) : f[j] # "."
    ELSE 0

\* Path::extension: what follows the last "." of the file name; None when
\* there is no file name, no ".", or nothing before the "." (".png")
extension(p) ==
    LET f == file_name(p) IN
    IF ~f.some THEN None
    ELSE LET d == LastDot(f.val) IN
         IF d <= 1 THEN None
         ELSE Some(SubSeq(f.val, d + 1, Len(f.val)))

-----------------------------------------------------------------------------
(* Results: TessResult<T> *)

Ok(v) == [ok |-> TRUE, val |-> v, err |-> "none"]
Err(e) == [ok |-> FALSE, val |-> <<>>, err |-> e]

-----------------------------------------------------------------------------
(* Image and InputData *)

\* an empty slot of the caller
NoImage == [kind |-> "none", path |-> <<>>]

\* InputData::Path(PathBuf)
InputData_Path(p) == [kind |-> "Path", path |-> p]

\* InputData::Image(NamedTempFile): the handle of the file at path p
InputData_Image(p) == [kind |-> "Image", path |-> p]

AllowList ==
    { <<"J","P","E","G">>, <<"J","P","G">>, <<"P","N","G">>, <<"P","B","M">>,
      <<"P","G","M">>, <<"P","P","M">>, <<"T","I","F","F">>, <<"B","M","P">>,
      <<"G","I","F">>, <<"W","E","B","P">> }

\* a check that takes a missing extension for a supported one
check_image_format_lax(path) ==
    LET ext == extension(path) IN
    IF ~ext.some THEN Ok(<<>>)
    ELSE LET s == to_str(ext.val) IN
         IF ~s.some THEN Err("ImageFormatError")
         ELSE IF to_uppercase(s.val) \in AllowList THEN Ok(<<>>)
         ELSE Err("ImageFormatError")

check_image_format(path) ==
    LET ext == extension(path) IN
    IF ~ext.some THEN Err("ImageFormatError")
    ELSE LET s == to_str(ext.val) IN
         IF ~s.some THEN Err("ImageFormatError")
         ELSE IF to_uppercase(s.val) \in AllowList THEN Ok(<<>>)
         ELSE Err("ImageFormatError")

from_path(path) ==
    LET c == check_image_format(path) IN
    IF ~c.ok THEN Err(c.err) ELSE Ok(InputData_Path(path))

\* a get_image_path that checks that the file exists
get_image_path_exists(self) ==
    LET s == to_str(self.path) IN
    IF s.some /\ self.path \in DOMAIN disk THEN Ok(s.val)
    ELSE Err("ImageNotFoundError")

get_image_path(self) ==
    LET s == IF self.kind = "Path" THEN to_str(self.path)
             ELSE to_str(self.path)
    IN IF s.some THEN Ok(s.val) ELSE Err("ImageNotFoundError")

\* a Display that prints a placeholder in place of an unreadable path
fmt_lossy(self) ==
    LET r == get_image_path(self) IN
    IF r.ok THEN [panic |-> FALSE, out |-> r.val]
    ELSE [panic |-> FALSE, out |-> <<"?">>]

\* impl Display for Image: write!(f, "{}", self.get_image_path().unwrap())
fmt(self) ==
    LET r == get_image_path(self) IN
    IF r.ok THEN [panic |-> FALSE, out |-> r.val]
    ELSE [panic |-> TRUE, out |-> <<>>]

-----------------------------------------------------------------------------
(* In-memory images and PNG files *)

\* image::DynamicImage: a pixel layout and the samples of its pixels
DynamicImage(color, width, height, samples) ==
    [color |-> color, width |-> width, height |-> height, samples |-> samples]

\* the in-memory images the caller passes
Bitmaps ==
    { DynamicImage("L8", 2, 1, <<0, 255>>),
      DynamicImage("La16", 1, 1, <<258, 65535>>),
      DynamicImage("Rgb32F", 1, 1, <<1, 0, 1>>) }

\* the layouts the PNG encoder writes: <<layout, PNG colour type, bit depth>>
PngLayouts ==
    { <<"L8", "Grayscale", 8>>, <<"Rgb8", "Rgb", 8>>,
      <<"La16", "GrayscaleAlpha", 16>> }

EmptyFile ==
    [format |-> "empty", colortype |-> "none", bitdepth |-> 0,
     width |-> 0, height |-> 0, data |-> <<>>]

\* the bytes of the samples in a PNG stream: 16-bit samples are two bytes,
\* most significant first
RECURSIVE SampleBytes(_, _)
SampleBytes(samples, depth) ==
    IF samples = <<>> THEN <<>>
    ELSE (IF depth = 16
          THEN <<Head(samples) \div 256, Head(samples) % 256>>
          ELSE <<Head(samples)>>) \o SampleBytes(Tail(samples), depth)

RECURSIVE BytesSamples(_, _)
BytesSamples(bytes, depth) ==
    IF bytes = <<>> THEN <<>>
    ELSE IF depth = 16
    THEN <<bytes[1] * 256 + bytes[2]>> \o BytesSamples(Tail(Tail(bytes)), depth)
    ELSE <<bytes[1]>> \o BytesSamples(Tail(bytes), depth)

\* image.save_with_format(path, ImageFormat::Png): the file content, or the
\* error of a layout PNG cannot hold or of a write that fails (io = "fail")
save_with_format(image, io) ==
    IF ~\E l \in PngLayouts : l[1] = image.color THEN Err("Unsupported")
    ELSE IF io = "fail" THEN Err("IoError")
    ELSE LET l == CHOOSE l \in PngLayouts : l[1] = image.color IN
         Ok([format |-> "png", colortype |-> l[2], bitdepth |-> l[3],
             width |-> image.width, height |-> image.height,
             data |-> SampleBytes(image.samples, l[3])])

\* ImageReader::open(path).decode() on a file's content
decode(file) ==
    IF file.format # "png" THEN Err("Decoding")
    ELSE LET l == CHOOSE l \in PngLayouts :
                      l[2] = file.colortype /\ l[3] = file.bitdepth IN
         Ok(DynamicImage(l[1], file.width, file.height,
                         BytesSamples(file.data, file.bitdepth)))

-----------------------------------------------------------------------------
(* The temporary-file facility and the disk *)

\* std::env::temp_dir(): the platform's directory, which need not be UTF-8
TempDirs == { <<"/", "t", "m", "p">>, <<"/", BadByte>> }

Prefix ==
    <<"r","u","s","t","y","-","t","e","s","s","e","r","a","c","t">>
Suffix == <<".", "p", "n", "g">>

\* the path of a temporary file: directory, prefix, drawn name, suffix
TempPath(dir, n) == dir \o <<"/">> \o Prefix \o <<ToString(n)>> \o Suffix

Remove(d, p) == [q \in DOMAIN d \ {p} |-> d[q]]
Store(d, p, content) ==
    [q \in DOMAIN d \cup {p} |-> IF q = p THEN content ELSE d[q]]

\* what the environment decides for one call of from_dynamic_image: the
\* temporary directory, the name drawn, whether the file can be created
\* and whether the write goes through
Envs ==
    [dir : TempDirs, name : 1..MaxTemp, alloc : {"ok"}, save : {"ok", "fail"}]
    \cup [dir : {<<"/", "t", "m", "p">>}, name : {1}, alloc : {"fail"},
          save : {"ok"}]

\* a from_dynamic_image that persists the temporary file before writing, so
\* that an early return leaves it on disk
from_dynamic_image_keep(image, env) ==
    LET path == TempPath(env.dir, env.name) IN
    IF env.alloc = "fail" \/ path \in DOMAIN disk
    THEN [res |-> Err("TempfileError"), disk |-> disk,
          steps |-> <<"tempfile">>]
    ELSE LET created == Store(disk, path, EmptyFile)
             saved == save_with_format(image, env.save)
         IN IF ~saved.ok
            THEN [res |-> Err("DynamicImageError"), disk |-> created,
                  steps |-> <<"tempfile", "save_with_format">>]
            ELSE [res |-> Ok(InputData_Image(path)),
                  disk |-> Store(created, path, saved.val),
                  steps |-> <<"tempfile", "save_with_format">>]

\* a from_dynamic_image that returns the handle without writing the image
from_dynamic_image_nosave(image, env) ==
    LET path == TempPath(env.dir, env.name) IN
    IF env.alloc = "fail" \/ path \in DOMAIN disk
    THEN [res |-> Err("TempfileError"), disk |-> disk,
          steps |-> <<"tempfile">>]
    ELSE [res |-> Ok(InputData_Image(path)),
          disk |-> Store(disk, path, EmptyFile),
          steps |-> <<"tempfile">>]

\* a from_dynamic_image that encodes first and allocates the file after
from_dynamic_image_swapped(image, env) ==
    LET path == TempPath(env.dir, env.name)
        saved == save_with_format(image, env.save)
    IN IF ~saved.ok
       THEN [res |-> Err("DynamicImageError"), disk |-> disk,
             steps |-> <<"save_with_format">>]
       ELSE IF env.alloc = "fail" \/ path \in DOMAIN disk
       THEN [res |-> Err("TempfileError"), disk |-> disk,
             steps |-> <<"save_with_format", "tempfile">>]
       ELSE [res |-> Ok(InputData_Image(path)),
             disk |-> Store(disk, path, saved.val),
             steps |-> <<"save_with_format", "tempfile">>]

\* Image::from_dynamic_image: the result, the disk it leaves, and the calls
\* it made in order.  The tempfile call creates an empty file under a name
\* no file has; an early return drops the handle, which removes the file.
from_dynamic_image(image, env) ==
    LET path == TempPath(env.dir, env.name) IN
    IF env.alloc = "fail" \/ path \in DOMAIN disk
    THEN [res |-> Err("TempfileError"), disk |-> disk,
          steps |-> <<"tempfile">>]
    ELSE LET created == Store(disk, path, EmptyFile)
             saved == save_with_format(image, env.save)
         IN IF ~saved.ok
            THEN [res |-> Err("DynamicImageError"),
                  disk |-> Remove(created, path),
                  steps |-> <<"tempfile", "save_with_format", "drop">>]
            ELSE [res |-> Ok(InputData_Image(path)),
                  disk |-> Store(created, path, saved.val),
                  steps |-> <<"tempfile", "save_with_format">>]

\* a drop that leaves the temporary file behind
drop_leak(self) == disk

\* dropping an Image: InputData::Image drops its NamedTempFile, which
\* removes the file; InputData::Path drops a PathBuf and touches no file
drop(self) ==
    IF self.kind = "Image" THEN Remove(disk, self.path) ELSE disk

-----------------------------------------------------------------------------
(* Args *)

\* impl Default for Args
Args_default ==
    [executable |-> None, tessdata_dir |-> None, lang |-> Some(<<"e","n","g">>).val,
     config_variables |-> <<>>, dpi |-> Some(150), psm |-> Some(3),
     oem |-> Some(3)]

\* a format that leaves the separator out
format_kv_nosep(key, value) == key \o value

\* format!("{}={}", key, value)
format_kv(key, value) == key \o <<"=">> \o value

\* Args::get_config_variable_args: one string per entry of the map, in the
\* order the map's iterator yields its keys
get_config_variable_args(self, order) ==
    [i \in 1..Len(order) |->
        format_kv(order[i], self.config_variables[order[i]])]

\* the orders in which a HashMap may yield the keys of m
IterOrders(m) ==
    { o \in [1..Cardinality(DOMAIN m) -> DOMAIN m] :
        \A i, j \in DOMAIN o : i # j => o[i] # o[j] }

-----------------------------------------------------------------------------
(* The calls of a caller *)

Slots == 1..MaxImages

NoBitmap == DynamicImage("none", 0, 0, <<>>)

NoEnv == [dir |-> <<>>, name |-> 0, alloc |-> "none", save |-> "none"]

\* the record of a call: its arguments (path, self, image), what the
\* environment decided (env), and its outcome
Call(op) ==
    [op |-> op, path |-> <<>>, self |-> NoImage, image |-> NoBitmap,
     env |-> NoEnv, ok |-> TRUE, err |-> "none", out |-> <<>>, panic |-> FALSE,
     steps |-> <<>>]

\* the slot the caller's next Image goes to
IsFreeSlot(s) ==
    /\ images[s] = NoImage
    /\ \A t \in Slots : t < s => images[t] # NoImage

\* let input = Image::from_path(p)
CallFromPath(p, s) ==
    /\ IsFreeSlot(s)
    /\ LET r == from_path(p) IN
       /\ images' = IF r.ok THEN [images EXCEPT ![s] = r.val] ELSE images
       /\ last' = [Call("from_path") EXCEPT
                     !.path = p, !.ok = r.ok, !.err = r.err,
                     !.self = IF r.ok THEN r.val ELSE NoImage]
    /\ UNCHANGED <<disk, args>>

\* let input = Image::from_dynamic_image(&img)
CallFromDynamicImage(img, env, s) ==
    /\ IsFreeSlot(s)
    /\ LET r == from_dynamic_image(img, env) IN
       /\ images' = IF r.res.ok THEN [images EXCEPT ![s] = r.res.val]
                    ELSE images
       /\ disk' = r.disk
       /\ last' = [Call("from_dynamic_image") EXCEPT
                     !.image = img, !.env = env, !.ok = r.res.ok, !.err = r.res.err,
                     !.self = IF r.res.ok THEN r.res.val ELSE NoImage,
                     !.steps = r.steps]
    /\ UNCHANGED args

\* input.get_image_path()
CallGetImagePath(s) ==
    /\ images[s] # NoImage
    /\ LET r == get_image_path(images[s]) IN
       last' = [Call("get_image_path") EXCEPT
                  !.self = images[s], !.ok = r.ok, !.err = r.err,
                  !.out = r.val]
    /\ UNCHANGED <<images, disk, args>>

\* format!("{}", input)
CallDisplay(s) ==
    /\ images[s] # NoImage
    /\ LET r == fmt(images[s]) IN
       last' = [Call("fmt") EXCEPT
                  !.self = images[s], !.panic = r.panic, !.out = r.out]
    /\ UNCHANGED <<images, disk, args>>

\* the Image of slot s goes out of scope
DropImage(s) ==
    /\ images[s] # NoImage
    /\ disk' = drop(images[s])
    /\ images' = [images EXCEPT ![s] = NoImage]
    /\ last' = [Call("drop") EXCEPT !.self = images[s]]
    /\ UNCHANGED args

\* args.config_variables.insert(k, v)
InsertConfigVariable(k, v) ==
    /\ k \in DOMAIN args.config_variables
       \/ Cardinality(DOMAIN args.config_variables) < MaxVars
    /\ args' = [args EXCEPT !.config_variables =
                   [q \in DOMAIN @ \cup {k} |-> IF q = k THEN v ELSE @[q]]]
    /\ last' = Call("insert")
    /\ UNCHANGED <<images, disk>>

\* args.get_config_variable_args()
CallGetConfigVariableArgs(order) ==
    /\ last' = [Call("get_config_variable_args") EXCEPT
                  !.out = get_config_variable_args(args, order)]
    /\ UNCHANGED <<images, disk, args>>

-----------------------------------------------------------------------------
(* Inputs *)

Dir_img == <<"i", "m", "g", "/">>
Stem_string == <<"s", "t", "r", "i", "n", "g">>
Stem_photo == <<"p", "h", "o", "t", "o">>

AsPath(dir, stem, ext) == dir \o stem \o <<".">> \o ext

\* the file the repository's tests read
Path_img_string_png == AsPath(Dir_img, Stem_string, <<"p", "n", "g">>)

\* the extensions of the allow-list, written in lowercase
LowerAllowList ==
    { <<"j","p","e","g">>, <<"j","p","g">>, <<"p","n","g">>, <<"p","b","m">>,
      <<"p","g","m">>, <<"p","p","m">>, <<"t","i","f","f">>, <<"b","m","p">>,
      <<"g","i","f">>, <<"w","e","b","p">> }

\* further extensions: in mixed case, outside the allow-list, empty, not
\* UTF-8, and ones that only Unicode uppercasing maps into the list
OtherExts ==
    { <<"J","p","g">>, <<"P","n","G">>, <<"t","x","t">>, <<"p","n">>,
      <<"p","n","g","x">>, <<>>, <<"p","n", BadByte>>, <<BadByte>>,
      <<"g","U+0131","f">>, <<"t","i","U+FB00">>, <<"U+00DF">> }

\* the paths given to from_path when its extension check is explored
PathInputs ==
    { AsPath(Dir_img, Stem_string, e) : e \in LowerAllowList \cup AllowList }
    \cup { AsPath(<<>>, Stem_photo, e) : e \in OtherExts }
    \cup { AsPath(<<>>, Stem_photo, <<"J","P","G">>),
           AsPath(<<>>, Stem_photo, <<"j","p","g">>),
           AsPath(<<BadByte, "/">>, Stem_photo, <<"p","n","g">>),
           AsPath(<<BadByte>>, <<>>, <<"G","I","F">>),
           Dir_img \o <<"n","o","e","x","t">>,
           <<".", "p", "n", "g">>,
           Dir_img \o <<".", "p", "n", "g">>,
           <<"a", ".", "p", "n", "g", "/", "b">>,
           <<"a", ".", "p", "n", "g", "/">>,
           <<"a", ".", "p", "n", "g", "/", ".">>,
           <<"a", ".", "p", "n", "g", "/", ".", ".">>,
           <<"a", ".", "t", "x", "t", ".", "p", "n", "g">>,
           <<"a", ".", "p", "n", "g", ".", "t", "x", "t">>,
           <<"a", ".", ".", "p", "n", "g">>,
           <<>>, <<"/">>, <<".", ".">> }

\* the paths given to from_path by a caller that also holds temporary
\* files: a file that exists, a rejected one, one that is not UTF-8, and
\* the path of a temporary file
LifecyclePaths ==
    { Path_img_string_png,
      AsPath(Dir_img, Stem_string, <<"t","x","t">>),
      AsPath(<<BadByte, "/">>, Stem_photo, <<"p","n","g">>),
      TempPath(<<"/", "t", "m", "p">>, 1) }

ConfigKeys ==
    { <<"k">>, <<"k", "=">>, <<"k", "=", "=">>, <<"d","p","i">> }
ConfigValues ==
    { <<"v">>, <<"=", "v">>, <<"=", "=", "v">>, <<>> }

-----------------------------------------------------------------------------
(* Specifications *)

Init ==
    /\ images = [s \in Slots |-> NoImage]
    /\ disk = [p \in {Path_img_string_png} |->
                  save_with_format(DynamicImage("L8", 2, 1, <<0, 255>>),
                                   "ok").val]
    /\ args = Args_default
    /\ last = Call("init")

\* a caller that builds, reads, prints and drops images
Next ==
    \/ \E p \in LifecyclePaths, s \in Slots : CallFromPath(p, s)
    \/ \E img \in Bitmaps, env \in Envs, s \in Slots :
          CallFromDynamicImage(img, env, s)
    \/ \E s \in Slots : CallGetImagePath(s)
    \/ \E s \in Slots : CallDisplay(s)
    \/ \E s \in Slots : DropImage(s)

Spec == Init /\ [][Next]_vars

\* a caller that gives from_path every path of PathInputs, holding one
\* Image at a time
NextPath ==
    \/ \E p \in PathInputs : CallFromPath(p, 1)
    \/ CallGetImagePath(1)
    \/ CallDisplay(1)
    \/ DropImage(1)

SpecPath == Init /\ [][NextPath]_vars

\* a caller that fills and renders the config variables
NextArgs ==
    \/ \E k \in ConfigKeys, v \in ConfigValues : InsertConfigVariable(k, v)
    \/ \E order \in IterOrders(args.config_variables) :
          CallGetConfigVariableArgs(order)

SpecArgs == Init /\ [][NextArgs]_vars

-----------------------------------------------------------------------------
(* Properties *)

IsUtf8(p) == \A k \in 1..Len(p) : p[k] # BadByte

\* x equals the uppercase word a up to the case of its ASCII letters
EqIgnoreAsciiCase(x, a) ==
    /\ Len(x) = Len(a)
    /\ \A k \in 1..Len(x) : x[k] = a[k] \/ <<x[k], a[k]>> \in AsciiPairs

\* the extension of p, compared case-insensitively, is in the allow-list
HasAllowedExtension(p) ==
    /\ extension(p).some
    /\ \E a \in AllowList : EqIgnoreAsciiCase(extension(p).val, a)

\* the extension of p, normalised to uppercase, is in the allow-list
NormalisedExtensionAllowed(p) ==
    /\ extension(p).some
    /\ IsUtf8(extension(p).val)
    /\ to_uppercase(extension(p).val) \in AllowList

TempPaths == { TempPath(d, n) : d \in TempDirs, n \in 1..MaxTemp }

Owners(p) == { s \in Slots : images[s].kind = "Image" /\ images[s].path = p }

\* C1 as stated: for every path whose extension is in the allow-list
\* (case-insensitively), from_path succeeds and get_image_path on the
\* result returns exactly the original path.
C1_Original ==
    (last.op = "from_path" /\ HasAllowedExtension(last.path))
        => /\ last.ok
           /\ get_image_path(last.self).ok
           /\ get_image_path(last.self).val = last.path

\* C1 amended: for every path whose extension is in the allow-list
\* (case-insensitively), from_path succeeds and stores the path unchanged;
\* get_image_path on the result returns exactly the original path when the
\* path is valid UTF-8, and ImageNotFoundError when it is not.
C1_FromPathAccepts ==
    (last.op = "from_path" /\ HasAllowedExtension(last.path))
        => /\ last.ok
           /\ last.self = InputData_Path(last.path)
           /\ images[1] = last.self
           /\ IsUtf8(last.path) =>
                 /\ get_image_path(last.self).ok
                 /\ get_image_path(last.self).val = last.path
           /\ ~IsUtf8(last.path) =>
                 /\ ~get_image_path(last.self).ok
                 /\ get_image_path(last.self).err = "ImageNotFoundError"

C1_Witness ==
    /\ last.op = "from_path"
    /\ last.path = AsPath(<<>>, Stem_photo, <<"J", "p", "g">>)
    /\ last.ok
    /\ get_image_path(images[1]).val = last.path

\* C2: for every path whose extension is absent or not in the allow-list,
\* from_path fails with ImageFormatError and with no other error, and no
\* Image is produced.
C2_FromPathRejects ==
    (last.op = "from_path" /\ ~NormalisedExtensionAllowed(last.path))
        => /\ ~last.ok
           /\ last.err = "ImageFormatError"
           /\ last.self = NoImage
           /\ images[1] = NoImage

C2_Witness ==
    /\ last.op = "from_path"
    /\ last.path = Dir_img \o <<".", "p", "n", "g">>
    /\ last.err = "ImageFormatError"

\* C3 as stated: every constructed Image resolves to a valid UTF-8 path:
\* get_image_path never returns ImageNotFoundError on it.
C3_Original ==
    \A s \in Slots : images[s] # NoImage => get_image_path(images[s]).ok

\* C3 amended: construction does not check that the whole path is UTF-8
\* (from_path checks the extension only, from_dynamic_image nothing), so a
\* constructed Image resolves to its stored path exactly when that path is
\* valid UTF-8, and get_image_path returns ImageNotFoundError on it exactly
\* when it is not.
C3_ResolvesIffUtf8 ==
    \A s \in Slots : images[s] # NoImage =>
        LET r == get_image_path(images[s]) IN
        /\ IsUtf8(images[s].path) => r.ok /\ r.val = images[s].path
        /\ ~IsUtf8(images[s].path) => ~r.ok /\ r.err = "ImageNotFoundError"

C3_Witness ==
    \E s, t \in Slots :
        /\ images[s].kind = "Image" /\ ~IsUtf8(images[s].path)
        /\ images[t].kind = "Path" /\ IsUtf8(images[t].path)
        /\ images[t].path \notin DOMAIN disk

\* C4 as stated: for any decodable image I, from_dynamic_image(I) succeeds
\* and the file at the path get_image_path returns decodes to I.
C4_Original ==
    last.op = "from_dynamic_image"
        => /\ last.ok
           /\ get_image_path(last.self).ok
           /\ last.self.path \in DOMAIN disk
           /\ decode(disk[last.self.path]) = Ok(last.image)

\* the file of every live temporary-file Image keeps its content
TempFileKept ==
    \A s \in Slots :
        (images[s].kind = "Image" /\ images'[s] = images[s])
            => /\ images[s].path \in DOMAIN disk'
               /\ disk'[images[s].path] = disk[images[s].path]

\* C4 amended: from_dynamic_image(I) fails with TempfileError or
\* DynamicImageError when the file cannot be allocated or I cannot be
\* encoded or written; whenever it succeeds, the file at the path of the
\* returned Image (the path get_image_path returns when it is valid
\* UTF-8) decodes to pixel data identical to I, and keeps doing so while
\* that Image is alive.
C4_RoundTrip ==
    /\ [](last.op = "from_dynamic_image" =>
            /\ last.ok =>
                  /\ last.self.path \in DOMAIN disk
                  /\ decode(disk[last.self.path]) = Ok(last.image)
            /\ ~last.ok => last.err \in {"TempfileError", "DynamicImageError"})
    /\ [][TempFileKept]_vars

C4_Witness ==
    /\ last.op = "from_dynamic_image"
    /\ last.ok
    /\ last.image.color = "La16"
    /\ get_image_path(last.self).ok
    /\ decode(disk[get_image_path(last.self).val]).val.samples = <<258, 65535>>

\* C5: the temporary file of an Image made by from_dynamic_image exists
\* while that Image is alive and no longer exists once it is dropped; the
\* drop of an Image made by from_path removes no file.
C5_Cleanup ==
    /\ [](\A s \in Slots :
            images[s].kind = "Image" => images[s].path \in DOMAIN disk)
    /\ []((last.op = "drop" /\ last.self.kind = "Image")
            => last.self.path \notin DOMAIN disk)
    /\ [][(last'.op = "drop" /\ last'.self.kind = "Path") => disk' = disk]_vars

C5_Witness ==
    /\ last.op = "drop"
    /\ last.self.kind = "Image"
    /\ \E s \in Slots :
          images[s].kind = "Path" /\ images[s].path = last.self.path

\* C6: rendering the config variables yields exactly one string per entry
\* of config_variables, the key, "=", then the value, in some order, and
\* nothing else, and leaves the Args unchanged.
C6_Render ==
    /\ [](last.op = "get_config_variable_args" =>
            LET m == args.config_variables IN
            /\ Len(last.out) = Cardinality(DOMAIN m)
            /\ \E o \in IterOrders(m) :
                  \A i \in 1..Len(last.out) :
                      last.out[i] = o[i] \o <<"=">> \o m[o[i]])
    /\ [][last'.op = "get_config_variable_args" => args' = args]_vars

C6_Witness ==
    /\ last.op = "get_config_variable_args"
    /\ Cardinality(DOMAIN args.config_variables) = 2
    /\ Len(last.out) = 2
    /\ last.out[1] = last.out[2]

\* C7: get_image_path is a pure accessor: a call leaves the Images and the
\* disk unchanged, and whatever happens between two reads of one Image,
\* both return the same result.
C7_PureAccessor ==
    /\ [][last'.op = "get_image_path" =>
            /\ images' = images /\ disk' = disk
            /\ last'.ok = get_image_path(last'.self).ok
            /\ last'.out = get_image_path(last'.self).val]_vars
    /\ [][\A s \in Slots :
            (images[s] # NoImage /\ images'[s] = images[s])
                => get_image_path(images[s])' = get_image_path(images[s])]_vars

C7_Witness ==
    /\ last.op = "get_image_path"
    /\ last.self.kind = "Path"
    /\ last.self.path \in TempPaths
    /\ last.self.path \notin DOMAIN disk
    /\ last.ok

\* C8: Display prints exactly the string get_image_path returns, and
\* panics when get_image_path fails with ImageNotFoundError.
C8_Display ==
    last.op = "fmt" =>
        LET r == get_image_path(last.self) IN
        /\ r.ok => ~last.panic /\ last.out = r.val
        /\ r.err = "ImageNotFoundError" => last.panic /\ last.out = <<>>
        /\ last.panic => ~IsUtf8(last.self.path)

C8_Witness ==
    /\ last.op = "fmt"
    /\ last.panic
    /\ last.self.kind = "Image"

\* C9: from_dynamic_image allocates, then encodes: a failed allocation
\* gives TempfileError without any encoding, a failed encoding or write
\* gives DynamicImageError, an Image is returned only when both steps
\* succeeded, and no step is made twice.
C9_StepsAndErrors ==
    last.op = "from_dynamic_image" =>
        /\ last.env.alloc = "fail" => ~last.ok /\ last.err = "TempfileError"
        /\ last.err = "TempfileError" => last.steps = <<"tempfile">>
        /\ (last.env.alloc = "ok" /\ last.err # "TempfileError"
               /\ (last.env.save = "fail" \/ ~save_with_format(last.image, "ok").ok))
              => ~last.ok /\ last.err = "DynamicImageError"
        /\ last.err = "DynamicImageError" =>
              /\ SubSeq(last.steps, 1, 2) = <<"tempfile", "save_with_format">>
              /\ last.self = NoImage
        /\ last.ok =>
              /\ last.steps = <<"tempfile", "save_with_format">>
              /\ last.env.alloc = "ok" /\ last.env.save = "ok"
              /\ last.self = InputData_Image(TempPath(last.env.dir, last.env.name))
        /\ \A i, j \in 1..Len(last.steps) :
              i # j => last.steps[i] # last.steps[j]

C9_Witness ==
    /\ last.op = "from_dynamic_image"
    /\ last.err = "DynamicImageError"
    /\ last.env.save = "fail"
    /\ last.image.color = "L8"

\* C10: every existing temporary file is owned by exactly one live Image;
\* after a from_dynamic_image that returned an error, no temporary file of
\* that call is on disk.
C10_NoLeak ==
    /\ \A p \in DOMAIN disk :
          p \in TempPaths => Cardinality(Owners(p)) = 1
    /\ (last.op = "from_dynamic_image" /\ ~last.ok) =>
          /\ last.err \in {"TempfileError", "DynamicImageError"}
          /\ last.self = NoImage
          /\ last.env.alloc = "ok" =>
                LET p == TempPath(last.env.dir, last.env.name) IN
                p \in DOMAIN disk => Owners(p) # {}

C10_Witness ==
    /\ last.op = "from_dynamic_image"
    /\ last.err = "DynamicImageError"
    /\ \E s \in Slots : images[s].kind = "Image"

====
